---- MODULE Spec2Model ----
(***************************************************************************)
(* Multi-provider consensus oracle of wsybok/elizaos_api.                  *)
(*                                                                         *)
(* Two variants of the consensus engine live in the repository:            *)
(*   - the HTTP endpoint POST /oracle/consensus   (src/src/api/oracle.ts)  *)
(*   - the plugin action's getConsensus           (src/unnamed/part_002;   *)
(*     src/unnamed/part_001 has the same parser and the same reduction)    *)
(* Around them: the router's validateApiKey and POST /oracle/evaluate, and *)
(* the plugin's action handler.                                            *)
(*                                                                         *)
(* Confidences are modelled in hundredths (0.7 is 70, 1.5 is 150); the     *)
(* mean totalConfidence / n is kept as the exact fraction num/den.         *)
(* Strings the code assembles are sequences of string pieces.  A provider  *)
(* text is a sequence of tokens: prose, "{", "}" and the member list of    *)
(* a JSON object.                                                          *)
(***************************************************************************)
EXTENDS Integers, Sequences, FiniteSets, TLC

VARIABLES
    request,     \* the request or message as received, until a handler
                 \* has taken its fields
    variant,     \* "none" | "http" | "evaluate" | "plugin": the handler
    pc,          \* "idle" | "route" | "handler" | "loop" | "store" |
                 \* "hung" | "done": position of the handler
    providers,   \* http: req.body.providers; plugin: providersToUse
    idx,         \* number of loop iterations completed
    responses,   \* the handler's `responses` array
    attempts,    \* history: one entry per loop iteration (what was asked,
                 \* what the outside world did, what callLLMProvider gave)
    result,      \* the HTTP response; in the plugin, what getConsensus
                 \* returned or threw
    callback     \* what the plugin's handler passed to its callback

vars == <<request, variant, pc, providers, idx, responses, attempts, result,
          callback>>

----------------------------------------------------------------------------
(* Bounds of the model *)

\* longest `providers` array of an HTTP consensus request
MaxProviders == 3
\* longest `providers` filter (enabledProviders) of a plugin request
MaxEnabled == 2

----------------------------------------------------------------------------
(* Program constants *)

CONSENSUS_THRESHOLD == 2
MIN_CONFIDENCE == 70
\* the literal 0.7 of the HTTP filter
HTTP_MIN_CONFIDENCE == 70

\* keys of LLM_CONFIGS (HTTP) and names of LLM_PROVIDERS (plugin)
LLM_CONFIGS == {"openai", "deepseek", "gemini"}
LLM_PROVIDERS == <<"openai", "deepseek", "gemini">>

----------------------------------------------------------------------------
(* Inputs: what a caller can send and what a provider can answer *)

\* provider identifiers a caller may name; "mistral" is not configured
FilterNames == {"openai", "deepseek", "gemini", "mistral"}

\* confidence numbers a provider may emit (hundredths)
Confidences == {-30, 69, 70, 90, 150}

Fields == {"optionATrue", "optionBTrue", "confidence", "reasoning"}

\* members of a JSON object; `wrong` names the members that are missing
\* or carry a value of another primitive type.  Every pair of flags comes
\* with every confidence from 0.7 up; the answers below 0.7 favour A, the
\* flags that would cast a vote if the answer were kept.
GoodObjects ==
    { o \in [optionATrue : BOOLEAN, optionBTrue : BOOLEAN,
             confidence : Confidences, reasoning : {"why"}, wrong : {{}}] :
        o.confidence < 70 => (o.optionATrue /\ ~o.optionBTrue) }

BadObjects ==
    { [optionATrue |-> TRUE, optionBTrue |-> FALSE, confidence |-> 90,
       reasoning |-> "why", wrong |-> w] :
         w \in {{"confidence"}, Fields} }

Objects == GoodObjects \cup BadObjects

Prose == [t |-> "prose"]
LB == [t |-> "{"]
RB == [t |-> "}"]
Obj(o) == [t |-> "members", o |-> o]

SampleObject ==
    [optionATrue |-> TRUE, optionBTrue |-> FALSE, confidence |-> 90,
     reasoning |-> "why", wrong |-> {}]

\* texts a provider may return
Texts ==
    { <<LB, Obj(o), RB>> : o \in Objects }
    \cup { <<>>,                                    \* empty content
           <<Prose>>,                               \* no braces
           <<RB, Prose, LB>>,                       \* braces, none matching
           <<LB, Prose, RB>>,                       \* braces, not JSON
           <<Prose, LB, Obj(SampleObject), RB, Prose>>,   \* fenced in prose
           <<LB, Obj(SampleObject), RB, Prose, RB>> }     \* trailing brace

\* what the outside world does with one call: the fetch rejects, or it
\* resolves with a status and a body whose assistant text is `text`
Outcomes ==
    { [net |-> "error", ok |-> FALSE, text |-> <<>>] }
    \cup { [net |-> "ok", ok |-> FALSE, text |-> t] :
              t \in { <<>>, <<LB, Obj(SampleObject), RB>> } }
    \cup { [net |-> "ok", ok |-> TRUE, text |-> t] : t \in Texts }

\* no request left the process
NoCall == [net |-> "none", ok |-> FALSE, text |-> <<>>]

\* what the provider's endpoint can do with a request that carries no
\* credential: refuse it, or answer it all the same
KeylessOutcomes ==
    { [net |-> "ok", ok |-> FALSE, text |-> <<>>],
      [net |-> "ok", ok |-> TRUE, text |-> <<LB, Obj(SampleObject), RB>>] }

Credentials == {"key", ""}

\* entries of an HTTP request's `providers` array
HttpConfigs ==
    { [provider |-> "openai", apiKey |-> "key"],
      [provider |-> "gemini", apiKey |-> ""],
      [provider |-> "mistral", apiKey |-> "key"] }

----------------------------------------------------------------------------
(* ResponseParser *)

Min(a, b) == IF a < b THEN a ELSE b
Max(a, b) == IF a > b THEN a ELSE b

\* text.match(/\{[\s\S]*\}/): from the first "{" that has a "}" after it
\* to the last "}" (the star is greedy); <<>> stands for no match
JsonMatch(text) ==
    LET lbs == { i \in 1..Len(text) : text[i].t = "{" }
        rbs == { i \in 1..Len(text) : text[i].t = "}" }
    IN  IF lbs = {} \/ rbs = {} THEN <<>>
        ELSE LET first == CHOOSE i \in lbs : \A j \in lbs : i <= j
                 last  == CHOOSE i \in rbs : \A j \in rbs : j <= i
             IN  IF first < last THEN SubSeq(text, first, last) ELSE <<>>

\* JSON.parse succeeds on exactly one object
JsonParses(m) ==
    /\ Len(m) = 3
    /\ m[1].t = "{"
    /\ m[2].t = "members"
    /\ m[3].t = "}"

TypeOf(o, f) ==
    IF f \in o.wrong THEN "other"
    ELSE IF f \in {"optionATrue", "optionBTrue"} THEN "boolean"
    ELSE IF f = "confidence" THEN "number"
    ELSE "string"

\* the structure check without its test of `confidence`
ValidStructureNoConfidence(o) ==
    /\ TypeOf(o, "optionATrue") = "boolean"
    /\ TypeOf(o, "optionBTrue") = "boolean"
    /\ TypeOf(o, "reasoning") = "string"

ValidStructure(o) ==
    /\ TypeOf(o, "optionATrue") = "boolean"
    /\ TypeOf(o, "optionBTrue") = "boolean"
    /\ TypeOf(o, "confidence") = "number"
    /\ TypeOf(o, "reasoning") = "string"

NoVerdict(msg) == [ok |-> FALSE, error |-> msg]

\* parseOracleResponse of the HTTP service: a verdict, or the Error thrown
parseOracleResponse(text) ==
    LET m == JsonMatch(text)
    IN  IF m = <<>> THEN NoVerdict("No JSON found in response")
        ELSE IF ~JsonParses(m) THEN NoVerdict("SyntaxError")
        ELSE IF ~ValidStructure(m[2].o)
             THEN NoVerdict("Invalid response structure")
        ELSE [ok |-> TRUE,
              optionATrue |-> m[2].o.optionATrue,
              optionBTrue |-> m[2].o.optionBTrue,
              confidence |-> Max(0, Min(100, m[2].o.confidence)),
              reasoning |-> m[2].o.reasoning]

\* the parsing half of the plugin's callLLMProvider: a verdict, or null
pluginParse(name, text) ==
    LET m == JsonMatch(text)
    IN  IF m = <<>> THEN NoVerdict("No JSON found")
        ELSE IF ~JsonParses(m) THEN NoVerdict("SyntaxError")
        ELSE IF ~ValidStructure(m[2].o)
             THEN NoVerdict("Invalid response structure")
        ELSE [ok |-> TRUE,
              provider |-> name,
              optionATrue |-> m[2].o.optionATrue,
              optionBTrue |-> m[2].o.optionBTrue,
              confidence |-> m[2].o.confidence,
              reasoning |-> m[2].o.reasoning]

----------------------------------------------------------------------------
(* ProviderClient *)

\* callLLMProvider of the HTTP service followed by parseOracleResponse,
\* as the try block of the consensus loop runs them
httpCall(cfg, out) ==
    IF cfg.provider \notin LLM_CONFIGS
    THEN NoVerdict("Unsupported provider")
    ELSE IF out.net = "error" THEN NoVerdict("fetch failed")
    ELSE IF ~out.ok THEN NoVerdict("API error")
    ELSE parseOracleResponse(out.text)

\* callOpenAI / callDeepSeek / callGemini: the text of the body, whatever
\* the status; a rejected fetch throws
\* callLLMProvider of the plugin: null without a credential, null when the
\* call throws, else the parsed text
pluginCall(name, cred, out) ==
    IF cred = "" THEN NoVerdict("No API key configured")
    ELSE IF name \notin LLM_CONFIGS THEN NoVerdict("Unsupported provider")
    ELSE IF out.net = "error" THEN NoVerdict("Error calling")
    ELSE pluginParse(name, out.text)

----------------------------------------------------------------------------
(* ConsensusEngine: the reduction *)

RECURSIVE CountA(_), CountB(_), TotalConfidence(_), Join(_)
RECURSIVE CountBAnyTrue(_), TotalConfidenceOfVoters(_), CountAAnyTrue(_)

\* a tally that counts A whenever optionATrue is set
CountAAnyTrue(rs) ==
    IF rs = <<>> THEN 0
    ELSE CountAAnyTrue(Tail(rs)) + (IF Head(rs).optionATrue THEN 1 ELSE 0)

\* optionAVotes after the tally loop over rs
CountA(rs) ==
    IF rs = <<>> THEN 0
    ELSE CountA(Tail(rs))
         + (IF Head(rs).optionATrue /\ ~Head(rs).optionBTrue THEN 1 ELSE 0)

\* a tally that counts B whenever optionBTrue is set
CountBAnyTrue(rs) ==
    IF rs = <<>> THEN 0
    ELSE CountBAnyTrue(Tail(rs))
         + (IF Head(rs).optionATrue /\ ~Head(rs).optionBTrue THEN 0
            ELSE IF Head(rs).optionBTrue THEN 1
            ELSE 0)

\* optionBVotes after the tally loop over rs
CountB(rs) ==
    IF rs = <<>> THEN 0
    ELSE CountB(Tail(rs))
         + (IF Head(rs).optionATrue /\ ~Head(rs).optionBTrue THEN 0
            ELSE IF Head(rs).optionBTrue /\ ~Head(rs).optionATrue THEN 1
            ELSE 0)

\* a total that adds the confidence inside the voting branches only
TotalConfidenceOfVoters(rs) ==
    IF rs = <<>> THEN 0
    ELSE (IF Head(rs).optionATrue = Head(rs).optionBTrue THEN 0
          ELSE Head(rs).confidence)
         + TotalConfidenceOfVoters(Tail(rs))

\* totalConfidence after the tally loop over rs
TotalConfidence(rs) ==
    IF rs = <<>> THEN 0
    ELSE Head(rs).confidence + TotalConfidence(Tail(rs))

\* reasonings.join('; ') of the entries `${provider}: ${reasoning}`
Join(rs) ==
    IF rs = <<>> THEN <<>>
    ELSE <<Head(rs).provider, ": ", Head(rs).reasoning>>
         \o (IF Tail(rs) = <<>> THEN <<>> ELSE <<"; ">>)
         \o Join(Tail(rs))

\* Math.floor(n / 2)
FloorHalf(n) == n \div 2

\* Math.ceil(n / 2)
CeilHalf(n) == (n + 1) \div 2

ProvidersOf(rs) == [i \in 1..Len(rs) |-> rs[i].provider]

\* response.confidence > MIN_CONFIDENCE
aboveFloor(c) == c > MIN_CONFIDENCE

\* response.confidence >= MIN_CONFIDENCE of the plugin's collecting loop
meetsFloor(c) == c >= MIN_CONFIDENCE

\* the filter of the HTTP handler: !r.error && r.response.confidence >= 0.7
isValidResponse(r) == r.error = "" /\ r.confidence >= HTTP_MIN_CONFIDENCE

\* the HTTP handler from `validResponses` on
httpConsensus(all) ==
    LET valid == SelectSeq(all, isValidResponse)
    IN  IF Len(valid) = 0
        THEN [kind |-> "error", status |-> 500,
              error |-> "No valid responses from providers",
              responses |-> all]
        ELSE [kind |-> "consensus",
              optionATrue |-> CountA(valid) >= CeilHalf(Len(valid)),
              optionBTrue |-> CountB(valid) >= CeilHalf(Len(valid)),
              confidence |-> [num |-> TotalConfidence(valid),
                              den |-> Len(valid)],
              reasoning |-> Join(valid),
              votes |-> [optionA |-> CountA(valid),
                         optionB |-> CountB(valid)],
              providers |-> ProvidersOf(valid),
              allResponses |-> all]

\* a reduction that answers an empty set with an all-false verdict
pluginConsensusDefault(rs) ==
    [kind |-> "consensus",
     optionATrue |-> CountA(rs) >= CONSENSUS_THRESHOLD,
     optionBTrue |-> CountB(rs) >= CONSENSUS_THRESHOLD,
     confidence |-> [num |-> TotalConfidence(rs),
                     den |-> IF Len(rs) = 0 THEN 1 ELSE Len(rs)],
     reasoning |-> Join(rs),
     votes |-> [optionA |-> CountA(rs), optionB |-> CountB(rs)],
     providers |-> ProvidersOf(rs),
     allResponses |-> <<>>]

\* a reduction under the majority threshold of the HTTP endpoint
pluginConsensusMajority(rs) ==
    IF Len(rs) = 0
    THEN [kind |-> "error", status |-> 0,
          error |-> "No valid responses received from AI providers",
          responses |-> <<>>]
    ELSE [kind |-> "consensus",
          optionATrue |-> CountA(rs) >= CeilHalf(Len(rs)),
          optionBTrue |-> CountB(rs) >= CeilHalf(Len(rs)),
          confidence |-> [num |-> TotalConfidence(rs), den |-> Len(rs)],
          reasoning |-> Join(rs),
          votes |-> [optionA |-> CountA(rs), optionB |-> CountB(rs)],
          providers |-> ProvidersOf(rs),
          allResponses |-> <<>>]

\* getConsensus of the plugin after the collecting loop
pluginConsensus(rs) ==
    IF Len(rs) = 0
    THEN [kind |-> "error", status |-> 0,
          error |-> "No valid responses received from AI providers",
          responses |-> <<>>]
    ELSE [kind |-> "consensus",
          optionATrue |-> CountA(rs) >= CONSENSUS_THRESHOLD,
          optionBTrue |-> CountB(rs) >= CONSENSUS_THRESHOLD,
          confidence |-> [num |-> TotalConfidence(rs), den |-> Len(rs)],
          reasoning |-> Join(rs),
          votes |-> [optionA |-> CountA(rs), optionB |-> CountB(rs)],
          providers |-> ProvidersOf(rs),
          allResponses |-> <<>>]

----------------------------------------------------------------------------
(* The handlers as state machines; each provider call is awaited, so the   *)
(* loop advances one provider per step, and the reduction runs in the same *)
(* step as the last call.                                                  *)

NoResult == [kind |-> "none"]
NoRequest == [kind |-> "none"]

\* the entry the HTTP loop pushes for one provider
httpEntry(cfg, v) ==
    IF v.ok
    THEN [provider |-> cfg.provider,
          optionATrue |-> v.optionATrue, optionBTrue |-> v.optionBTrue,
          confidence |-> v.confidence, reasoning |-> v.reasoning,
          error |-> ""]
    ELSE [provider |-> cfg.provider,
          optionATrue |-> FALSE, optionBTrue |-> FALSE,
          confidence |-> 0, reasoning |-> "Provider error",
          error |-> v.error]

RECURSIVE SeqsUpTo(_, _)
SeqsUpTo(S, n) ==
    IF n = 0 THEN {<<>>}
    ELSE LET shorter == SeqsUpTo(S, n - 1)
         IN  shorter \cup { Append(s, x) : s \in shorter, x \in S }

\* responses.unshift(entry)
unshift(rs, e) == <<e>> \o rs

\* responses.push(entry)
push(rs, e) == Append(rs, e)

\* a loop that stays on a provider until it yields a verdict
advanceOnVerdict(i, v) == IF v.ok THEN i + 1 ELSE i

\* the for-of loop moves to the next entry whatever the call gave
advance(i, v) == i + 1

----------------------------------------------------------------------------
(* RequestGateway: the router's middleware *)

\* the value of ELIZAOS_API_KEY when it is set, as a sequence of pieces
ApiKey == <<"s", "k">>

\* process.env.ELIZAOS_API_KEY: unset (or empty), or set
ConfiguredKeys == {<<>>, ApiKey}

\* Authorization headers a request may carry, as sequences of pieces
Headers ==
    { [present |-> FALSE, value |-> <<>>] }
    \cup { [present |-> TRUE, value |-> h] :
             h \in { <<"Bearer ", "s", "k">>,
                     <<"Bearer ", "x">>,
                     <<"Bearer ", "Bearer ", "s", "k">>,
                     <<"s", "k">>,
                     <<"s", "Bearer ", "k">>,
                     <<>> } }

\* value.replace('Bearer ', '') that leaves the value as it is
replaceNothing(value) == value

\* value.replace('Bearer ', ''): the first occurrence is removed
replaceBearer(value) ==
    LET hits == { i \in 1..Len(value) : value[i] = "Bearer " }
    IN  IF hits = {} THEN value
        ELSE LET f == CHOOSE i \in hits : \A j \in hits : i <= j
             IN  SubSeq(value, 1, f - 1) \o SubSeq(value, f + 1, Len(value))

\* validateApiKey: TRUE when next() is called, FALSE when it answers 401
validateApiKey(header, validApiKey) ==
    ~( \/ validApiKey = <<>>
       \/ ~header.present
       \/ replaceBearer(header.value) # validApiKey )

ConsensusBodies ==
    { [path |-> "consensus", prompt |-> p, isArray |-> TRUE, providers |-> ps,
       provider |-> "", model |-> "", apiKey |-> ""] :
         p \in {"", "q"}, ps \in SeqsUpTo(HttpConfigs, MaxProviders) }
    \cup { [path |-> "consensus", prompt |-> "q", isArray |-> FALSE,
            providers |-> <<>>, provider |-> "", model |-> "",
            apiKey |-> ""] }

EvaluateBodies ==
    { b \in [path : {"evaluate"}, prompt : {"", "q"}, isArray : {FALSE},
             providers : {<<>>}, provider : {"", "openai", "mistral"},
             model : {"", "m"}, apiKey : Credentials] :
        Cardinality({ f \in {"prompt", "provider", "model", "apiKey"} :
                         b[f] = "" }) <= 1 }

HttpBodies == ConsensusBodies \cup EvaluateBodies

Unauthorized ==
    [kind |-> "error", status |-> 401, error |-> "Invalid API key",
     responses |-> <<>>]

Init ==
    /\ request = NoRequest
    /\ variant = "none"
    /\ pc = "idle"
    /\ providers = <<>>
    /\ idx = 0
    /\ responses = <<>>
    /\ attempts = <<>>
    /\ result = NoResult
    /\ callback = NoResult

\* a request reaches the router and passes through validateApiKey
HttpRequestArrives ==
    /\ pc = "idle"
    /\ \E header \in Headers, key \in ConfiguredKeys, body \in HttpBodies :
         /\ request' = [kind |-> "http", header |-> header, key |-> key,
                        body |-> body]
         /\ IF validateApiKey(header, key)
            THEN pc' = "route" /\ result' = NoResult
            ELSE pc' = "done" /\ result' = Unauthorized
    /\ UNCHANGED <<variant, providers, idx, responses, attempts, callback>>

\* POST /oracle/consensus up to the first provider call
HttpConsensusRequest ==
    /\ pc = "route"
    /\ request.body.path = "consensus"
    /\ LET prompt == request.body.prompt
           isArray == request.body.isArray
           ps == request.body.providers
       IN  /\ variant' = "http"
           /\ idx' = 0
           /\ responses' = <<>>
           /\ attempts' = <<>>
           /\ IF prompt = "" \/ ~isArray
              THEN /\ providers' = <<>>
                   /\ pc' = "done"
                   /\ result' = [kind |-> "error", status |-> 400,
                         error |-> "Missing required fields: prompt, providers array",
                         responses |-> <<>>]
              ELSE /\ providers' = ps
                   /\ IF ps = <<>>
                      THEN pc' = "done" /\ result' = httpConsensus(<<>>)
                      ELSE pc' = "loop" /\ result' = NoResult
    /\ request' = NoRequest
    /\ UNCHANGED callback

\* what can happen to the call made for one entry of the array
HttpOutcomes(cfg) ==
    IF cfg.provider \notin LLM_CONFIGS THEN {NoCall}
    ELSE IF cfg.apiKey = "" THEN KeylessOutcomes
    ELSE Outcomes

\* what can happen in the plugin's callLLMProvider
PluginOutcomes(cred) == IF cred = "" THEN {NoCall} ELSE Outcomes

\* one iteration of the HTTP loop; after the last one, the reduction
HttpCallProvider ==
    /\ pc = "loop"
    /\ variant = "http"
    /\ \E out \in HttpOutcomes(providers[idx + 1]) :
         LET cfg == providers[idx + 1]
             v == httpCall(cfg, out)
             rs == push(responses, httpEntry(cfg, v))
         IN  /\ responses' = rs
             /\ attempts' = Append(attempts,
                    [provider |-> cfg.provider, credential |-> cfg.apiKey,
                     called |-> cfg.provider \in LLM_CONFIGS,
                     outcome |-> out, verdict |-> v])
             /\ idx' = advance(idx, v)
             /\ IF advance(idx, v) = Len(providers)
                THEN pc' = "done" /\ result' = httpConsensus(rs)
                ELSE pc' = "loop" /\ result' = NoResult
    /\ UNCHANGED <<request, variant, providers, callback>>

\* POST /oracle/evaluate up to its provider call
HttpEvaluateRequest ==
    /\ pc = "route"
    /\ request.body.path = "evaluate"
    /\ LET b == request.body
       IN  /\ variant' = "evaluate"
           /\ idx' = 0
           /\ responses' = <<>>
           /\ attempts' = <<>>
           /\ IF b.prompt = "" \/ b.provider = "" \/ b.model = ""
                 \/ b.apiKey = ""
              THEN /\ providers' = <<>>
                   /\ pc' = "done"
                   /\ result' = [kind |-> "error", status |-> 400,
                         error |-> "Missing required fields: prompt, provider, model, apiKey",
                         responses |-> <<>>]
              ELSE /\ providers' = <<[provider |-> b.provider,
                                      apiKey |-> b.apiKey]>>
                   /\ pc' = "loop"
                   /\ result' = NoResult
    /\ request' = NoRequest
    /\ UNCHANGED callback

\* POST /oracle/evaluate from the return of its provider call on
HttpEvaluateCall ==
    /\ pc = "loop"
    /\ variant = "evaluate"
    /\ \E out \in HttpOutcomes(providers[1]) :
         LET cfg == providers[1]
             v == httpCall(cfg, out)
         IN  /\ attempts' = Append(attempts,
                    [provider |-> cfg.provider, credential |-> cfg.apiKey,
                     called |-> cfg.provider \in LLM_CONFIGS,
                     outcome |-> out, verdict |-> v])
             /\ result' = IF v.ok
                          THEN [kind |-> "verdict",
                                optionATrue |-> v.optionATrue,
                                optionBTrue |-> v.optionBTrue,
                                confidence |-> v.confidence,
                                reasoning |-> v.reasoning]
                          ELSE [kind |-> "error", status |-> 500,
                                error |-> "Oracle evaluation failed",
                                details |-> v.error, responses |-> <<>>]
    /\ idx' = 1
    /\ pc' = "done"
    /\ UNCHANGED <<request, variant, providers, responses, callback>>

----------------------------------------------------------------------------
(* The plugin's action *)

Filters == SeqsUpTo(FilterNames, MaxEnabled)

\* message contents: complete, or with one of the three texts missing
Contents ==
    { c \in [question : {"", "q"}, optionA : {"", "a"}, optionB : {"", "b"}] :
        Cardinality({ f \in {"question", "optionA", "optionB"} :
                         c[f] = "" }) <= 1 }

\* evaluatePredictionAction.validate
validate(content) ==
    content.question # "" /\ content.optionA # "" /\ content.optionB # ""

\* the callback of the handler's catch block
handlerCatch(message) ==
    [kind |-> "error",
     text |-> <<"Error evaluating prediction: ", message>>,
     error |-> message]

\* Math.round(consensus.confidence * 100) for a confidence that is not
\* negative
roundedPercent(c) == (2 * c.num + c.den) \div (2 * c.den)

\* the callback of the handler after the memory was stored
handlerSuccess(consensus) ==
    [kind |-> "result",
     winner |-> IF consensus.optionATrue THEN "A"
                ELSE IF consensus.optionBTrue THEN "B" ELSE "Neither",
     percent |-> roundedPercent(consensus.confidence),
     content |-> consensus,
     action |-> "EVALUATE_PREDICTION"]

\* the runtime holds a message for the action; validate is the runtime's
\* to call, the handler does not consult it
PluginMessage ==
    /\ pc = "idle"
    /\ \E content \in Contents, filtered \in BOOLEAN,
          enabledProviders \in Filters :
         /\ filtered \/ enabledProviders = <<>>
         /\ request' = [kind |-> "plugin", content |-> content,
                        valid |-> validate(content),
                        filtered |-> filtered,
                        enabledProviders |-> enabledProviders]
    /\ pc' = "handler"
    /\ UNCHANGED <<variant, providers, idx, responses, attempts, result,
                   callback>>

\* a selection that takes the caller's list as it is
providersAsNamed(filtered, enabledProviders) ==
    IF filtered THEN enabledProviders ELSE LLM_PROVIDERS

\* providersToUse of getConsensus
providersToUse(filtered, enabledProviders) ==
    LET inFilter(n) == \E i \in 1..Len(enabledProviders) :
                           enabledProviders[i] = n
    IN  IF filtered
        THEN SelectSeq(LLM_PROVIDERS, inFilter)
        ELSE LLM_PROVIDERS

\* the handler and getConsensus up to the first provider call
PluginGetConsensus ==
    /\ pc = "handler"
    /\ LET use == providersToUse(request.filtered, request.enabledProviders)
       IN  /\ variant' = "plugin"
           /\ providers' = use
           /\ idx' = 0
           /\ responses' = <<>>
           /\ attempts' = <<>>
           /\ IF use = <<>>
              THEN /\ result' = pluginConsensus(<<>>)
                   /\ IF pluginConsensus(<<>>).kind = "consensus"
                      THEN pc' = "store" /\ callback' = NoResult
                      ELSE /\ pc' = "done"
                           /\ callback' =
                                 handlerCatch(pluginConsensus(<<>>).error)
              ELSE /\ pc' = "loop"
                   /\ result' = NoResult
                   /\ callback' = NoResult
    /\ request' = NoRequest

\* one iteration of the plugin's collecting loop; after the last one, the
\* reduction, and the handler's catch block when the reduction throws
PluginCallProvider ==
    /\ pc = "loop"
    /\ variant = "plugin"
    /\ \E cred \in Credentials :
       \E out \in PluginOutcomes(cred) :
         LET name == providers[idx + 1]
             v == pluginCall(name, cred, out)
             rs == IF v.ok /\ meetsFloor(v.confidence)
                   THEN push(responses, v) ELSE responses
         IN  /\ responses' = rs
             /\ attempts' = Append(attempts,
                    [provider |-> name, credential |-> cred,
                     called |-> cred # "",
                     outcome |-> out, verdict |-> v])
             /\ idx' = advance(idx, v)
             /\ IF advance(idx, v) = Len(providers)
                THEN /\ result' = pluginConsensus(rs)
                     /\ IF pluginConsensus(rs).kind = "consensus"
                        THEN pc' = "store" /\ callback' = NoResult
                        ELSE /\ pc' = "done"
                             /\ callback' =
                                   handlerCatch(pluginConsensus(rs).error)
                ELSE pc' = "loop" /\ result' = NoResult
                     /\ callback' = NoResult
    /\ UNCHANGED <<request, variant, providers>>

\* the handler from the return of messageManager.createMemory on
PluginStoreMemory ==
    /\ pc = "store"
    /\ \E stored \in BOOLEAN :
         callback' = IF stored THEN handlerSuccess(result)
                     ELSE handlerCatch("createMemory failed")
    /\ pc' = "done"
    /\ UNCHANGED <<request, variant, providers, idx, responses, attempts,
                   result>>

----------------------------------------------------------------------------
(* The outside world *)

\* a request has left for the provider of the current iteration
CallInFlight ==
    /\ pc = "loop"
    /\ IF variant = "plugin" THEN TRUE
       ELSE providers[idx + 1].provider \in LLM_CONFIGS

\* the provider never answers and the promise of fetch never settles: no
\* fetch of the repository sets a timeout or an abort signal, so the
\* awaiting handler is never resumed. (A platform that gives up on its own
\* rejects the promise: that is the outcome net = "error".)
ProviderHangs ==
    /\ CallInFlight
    /\ pc' = "hung"
    /\ UNCHANGED <<request, variant, providers, idx, responses, attempts,
                   result, callback>>

Next ==
    \/ HttpRequestArrives
    \/ HttpConsensusRequest
    \/ HttpCallProvider
    \/ HttpEvaluateRequest
    \/ HttpEvaluateCall
    \/ PluginMessage
    \/ PluginGetConsensus
    \/ PluginCallProvider
    \/ PluginStoreMemory
    \/ ProviderHangs

Spec == Init /\ [][Next]_vars

\* the event loop resumes a handler whose awaited promise has settled
SpecLive == Spec /\ WF_vars(Next)

----------------------------------------------------------------------------
(* Vocabulary of the properties, stated over the history of the attempts   *)

Finished == pc = "done"
IsConsensus == result.kind = "consensus"
\* the request passed the input check, so the engine ran
Evaluated ==
    /\ Finished
    /\ variant \in {"http", "plugin"}
    /\ ~(result.kind = "error" /\ result.status = 400)

Attempted == 1..Len(attempts)

\* loop iterations whose provider text became a verdict
WithVerdict == { i \in Attempted : attempts[i].verdict.ok }

\* verdicts at or above the confidence floor of 0.7: the consensus set
AcceptedSet ==
    { i \in WithVerdict : ~(attempts[i].verdict.confidence < 70) }

BelowFloor == WithVerdict \ AcceptedSet

FavoursA(i) ==
    attempts[i].verdict.optionATrue /\ ~attempts[i].verdict.optionBTrue
FavoursB(i) ==
    attempts[i].verdict.optionBTrue /\ ~attempts[i].verdict.optionATrue
Ambiguous(i) ==
    attempts[i].verdict.optionATrue = attempts[i].verdict.optionBTrue

\* the k-th member of the consensus set, in the order of the attempts
NthAccepted(k) ==
    CHOOSE i \in AcceptedSet :
        Cardinality({ j \in AcceptedSet : j <= i }) = k

RECURSIVE SumConfidence(_)
SumConfidence(S) ==
    IF S = {} THEN 0
    ELSE LET i == CHOOSE j \in S : TRUE
         IN  attempts[i].verdict.confidence + SumConfidence(S \ {i})

\* the provider answered, but its text holds no usable verdict object
Malformed(i) ==
    /\ attempts[i].outcome.net = "ok"
    /\ attempts[i].outcome.ok
    /\ \/ \A k \in 1..Len(attempts[i].outcome.text) :
              attempts[i].outcome.text[k].t = "prose"
       \/ \E k \in 1..Len(attempts[i].outcome.text) :
              /\ attempts[i].outcome.text[k].t = "members"
              /\ attempts[i].outcome.text[k].o.wrong # {}
       \/ /\ \E k \in 1..Len(attempts[i].outcome.text) :
                 attempts[i].outcome.text[k].t = "{"
          /\ \A k \in 1..Len(attempts[i].outcome.text) :
                 attempts[i].outcome.text[k].t # "members"

\* transport error, non-success status, or no credential
Unavailable(i) ==
    \/ attempts[i].credential = ""
    \/ attempts[i].outcome.net = "error"
    \/ attempts[i].outcome.net = "ok" /\ ~attempts[i].outcome.ok

NoConsensusMessages ==
    { "No valid responses from providers",
      "No valid responses received from AI providers" }

\* ceil(n / 2), as the least k with 2k >= n
HalfRoundedUp(n) == CHOOSE k \in 0..n : 2 * k >= n /\ 2 * (k - 1) < n

----------------------------------------------------------------------------
(* C1 *)

\* C1: an evaluation whose consensus set is empty ends in the
\* NoConsensusPossible failure and hands no ConsensusResult to the caller,
\* in the HTTP consensus endpoint and in the plugin's getConsensus.
C1_EmptySetFails ==
    (Evaluated /\ AcceptedSet = {}) =>
        /\ result.kind = "error"
        /\ result.error \in NoConsensusMessages

\* every provider of a three-provider run answered below the floor or failed
C1_Witness ==
    /\ Evaluated
    /\ Len(attempts) = 3
    /\ AcceptedSet = {}
    /\ BelowFloor # {}
    /\ WithVerdict # Attempted
    /\ result.kind = "error"

----------------------------------------------------------------------------
(* C2 *)

\* C2: in every ConsensusResult optionATrue holds exactly when votes.optionA
\* reaches the threshold and optionBTrue exactly when votes.optionB does;
\* the threshold is ceil(acceptedCount / 2) in the HTTP endpoint and 2 in the
\* plugin.
ThresholdOf(n) ==
    IF variant = "http" THEN HalfRoundedUp(n) ELSE 2

C2_FlagsIffThreshold ==
    IsConsensus =>
        /\ result.optionATrue <=>
              (result.votes.optionA >= ThresholdOf(Cardinality(AcceptedSet)))
        /\ result.optionBTrue <=>
              (result.votes.optionB >= ThresholdOf(Cardinality(AcceptedSet)))

\* accepted verdicts A, A, B in the HTTP endpoint
C2_Witness ==
    /\ IsConsensus
    /\ variant = "http"
    /\ Cardinality(AcceptedSet) = 3
    /\ result.votes = [optionA |-> 2, optionB |-> 1]
    /\ result.optionATrue
    /\ ~result.optionBTrue

----------------------------------------------------------------------------
(* C3 *)

\* C3: votes.optionA counts the accepted verdicts with optionATrue and not
\* optionBTrue, votes.optionB those with optionBTrue and not optionATrue; an
\* accepted verdict with equal flags adds to neither, yet its provider is in
\* the providers list and its reasoning in the reasoning trail.
C3_VoteRule ==
    IsConsensus =>
        /\ result.votes.optionA
              = Cardinality({ i \in AcceptedSet : FavoursA(i) })
        /\ result.votes.optionB
              = Cardinality({ i \in AcceptedSet : FavoursB(i) })
        /\ Len(result.providers) = Cardinality(AcceptedSet)
        /\ Len(result.reasoning) = 4 * Cardinality(AcceptedSet) - 1
        /\ \A k \in 1..Cardinality(AcceptedSet) :
              /\ result.providers[k] = attempts[NthAccepted(k)].provider
              /\ result.reasoning[4 * k - 3] = attempts[NthAccepted(k)].provider
              /\ result.reasoning[4 * k - 2] = ": "
              /\ result.reasoning[4 * k - 1]
                    = attempts[NthAccepted(k)].verdict.reasoning

\* a result with a vote for each side and an accepted verdict that casts none
C3_Witness ==
    /\ IsConsensus
    /\ \E i \in AcceptedSet : Ambiguous(i) /\ attempts[i].verdict.optionATrue
    /\ result.votes = [optionA |-> 1, optionB |-> 1]
    /\ Len(result.providers) = 3

----------------------------------------------------------------------------
(* C4 *)

\* C4: the confidence of a ConsensusResult is the sum of the confidences of
\* all accepted verdicts, voting or not, over their number; failed and
\* below-floor attempts count in neither.
C4_MeanOfAccepted ==
    IsConsensus =>
        /\ result.confidence.den > 0
        /\ result.confidence.num * Cardinality(AcceptedSet)
              = SumConfidence(AcceptedSet) * result.confidence.den

\* two accepted verdicts, one of them casting no vote, next to a rejected one
C4_Witness ==
    /\ IsConsensus
    /\ Cardinality(AcceptedSet) = 2
    /\ \E i \in AcceptedSet : Ambiguous(i)
    /\ \E i \in AcceptedSet, j \in AcceptedSet :
          attempts[i].verdict.confidence # attempts[j].verdict.confidence
    /\ BelowFloor # {}
    /\ result.votes.optionA + result.votes.optionB = 1

----------------------------------------------------------------------------
(* C5 *)

\* the confidence number inside the provider's text
Emitted(i) ==
    LET text == attempts[i].outcome.text
        k == CHOOSE j \in 1..Len(text) : text[j].t = "members"
    IN  text[k].o.confidence

\* C5: every verdict created from a provider's text, by the HTTP parser or
\* by the plugin's callLLMProvider, has its confidence in [0,1]: a number
\* above 1 becomes 1, a number below 0 becomes 0, and the verdict is kept.
C5_ClampedAtCreation ==
    \A i \in WithVerdict :
        /\ attempts[i].verdict.confidence >= 0
        /\ attempts[i].verdict.confidence <= 100
        /\ Emitted(i) > 100 => attempts[i].verdict.confidence = 100
        /\ Emitted(i) < 0 => attempts[i].verdict.confidence = 0

----------------------------------------------------------------------------
(* C6 *)

\* C6: the confidence of every ConsensusResult of the HTTP endpoint or of
\* the plugin's getConsensus lies in [0,1], whatever numbers the providers
\* emitted.
C6_ResultConfidenceInRange ==
    IsConsensus =>
        /\ result.confidence.num >= 0
        /\ result.confidence.num <= 100 * result.confidence.den

----------------------------------------------------------------------------
(* C7 *)

\* C7: a parsed verdict is in the consensus set exactly when its confidence
\* is at least 0.7 (0.7 itself is accepted); a verdict below the floor adds
\* nothing to the votes, the mean, the providers list or the reasoning trail.
C7_FloorDecidesMembership ==
    /\ variant = "plugin" => Len(responses) = Cardinality(AcceptedSet)
    /\ IsConsensus =>
          /\ Len(result.providers) = Cardinality(WithVerdict \ BelowFloor)
          /\ result.confidence.den = Cardinality(WithVerdict \ BelowFloor)
          /\ Len(result.reasoning) + 1
                = 4 * Cardinality(WithVerdict \ BelowFloor)
          /\ result.votes.optionA + result.votes.optionB
                <= Cardinality(WithVerdict \ BelowFloor)
          /\ result.votes.optionA
                <= Cardinality({ i \in WithVerdict \ BelowFloor :
                                    attempts[i].verdict.optionATrue })

\* one verdict at exactly 0.7 is kept while one at 0.69 is dropped
C7_Witness ==
    /\ IsConsensus
    /\ \E i \in AcceptedSet : attempts[i].verdict.confidence = 70
    /\ \E i \in BelowFloor : attempts[i].verdict.confidence = 69
    /\ Len(result.providers) = 1

----------------------------------------------------------------------------
(* C8 *)

MalformedSet == { i \in Attempted : Malformed(i) }

\* C8: a provider whose text is malformed never fails the evaluation: the
\* failure stays with that provider, which is left out of the votes, the
\* mean, the providers list and the reasoning; the other providers are still
\* evaluated, and a ConsensusResult is returned whenever another provider's
\* verdict is accepted.
C8_MalformedIsAbsorbed ==
    /\ \A i \in MalformedSet :
          /\ i \notin WithVerdict
          /\ variant = "http" => responses[i].error # ""
    /\ Evaluated =>
          /\ Len(attempts) = Len(providers)
          /\ result.kind = "error" => result.error \in NoConsensusMessages
          /\ AcceptedSet # {} => IsConsensus
          /\ IsConsensus =>
                /\ Len(result.providers) + Cardinality(MalformedSet)
                      <= Len(attempts)
                /\ result.confidence.den + Cardinality(MalformedSet)
                      <= Len(attempts)

\* the first provider's text is malformed, a later provider is accepted
C8_Witness ==
    /\ IsConsensus
    /\ Len(attempts) = 3
    /\ 1 \in MalformedSet
    /\ Cardinality(MalformedSet) = 2
    /\ 3 \in AcceptedSet

----------------------------------------------------------------------------
(* C9 *)

UnavailableSet == { i \in Attempted : Unavailable(i) }

\* C9: a transport error, a non-success HTTP status, or a missing or empty
\* credential gives no verdict for that provider: it casts no vote, is absent
\* from the providers list and from the mean, and does not fail the
\* evaluation.
C9_UnavailableGivesNoVerdict ==
    /\ \A i \in UnavailableSet : i \notin WithVerdict
    /\ Evaluated =>
          /\ Len(attempts) = Len(providers)
          /\ IsConsensus =>
                Len(result.providers) + Cardinality(UnavailableSet)
                    <= Len(attempts)

----------------------------------------------------------------------------
(* C10 *)

\* C10: under threshold 2 (the plugin), when exactly one verdict is accepted
\* and it favours A with confidence c, the result has both flags false,
\* votes {optionA: 1, optionB: 0} and confidence c.
C10_SingleVoteNoConsensus ==
    (/\ variant = "plugin"
     /\ Finished
     /\ Cardinality(AcceptedSet) = 1
     /\ \A i \in AcceptedSet : FavoursA(i))
    => /\ IsConsensus
       /\ ~result.optionATrue
       /\ ~result.optionBTrue
       /\ result.votes = [optionA |-> 1, optionB |-> 0]
       /\ \A i \in AcceptedSet :
             result.confidence.num
                = attempts[i].verdict.confidence * result.confidence.den

\* one accepted verdict favouring A at 0.9 among three providers
C10_Witness ==
    /\ variant = "plugin"
    /\ IsConsensus
    /\ Len(attempts) = 3
    /\ Cardinality(AcceptedSet) = 1
    /\ \A i \in AcceptedSet :
          FavoursA(i) /\ attempts[i].verdict.confidence = 90
    /\ result.confidence = [num |-> 90, den |-> 1]

----------------------------------------------------------------------------
(* C11 *)

\* the identifier of the i-th entry of the list the loop walks
NameAt(i) ==
    IF variant = "plugin" THEN providers[i] ELSE providers[i].provider

----------------------------------------------------------------------------
(* C12 *)

\* the request held by the router or the runtime has its question (the
\* prompt, over HTTP) and, in the plugin, both options
InputComplete ==
    IF request.kind = "plugin"
    THEN /\ request.content.question # ""
         /\ request.content.optionA # ""
         /\ request.content.optionB # ""
    ELSE request.body.prompt # ""

\* C12: a request without its question (prompt) or without one of its
\* options is rejected by the handler with an input error, and no provider
\* is called for it.
C12_IncompleteInputIsRejected ==
    [][ (pc \in {"route", "handler"} /\ ~InputComplete) =>
            /\ pc' = "done"
            /\ attempts' = <<>>
            /\ result'.kind = "error"
            /\ result'.status = 400 ]_vars

----------------------------------------------------------------------------
(* C13 *)

Configured == {"openai", "deepseek", "gemini"}

\* iterations of the loop made for an identifier that is not configured
UnknownSet == { i \in Attempted : attempts[i].provider \notin Configured }

\* the per-attempt record the HTTP endpoint returns with its answer
DiagnosticRecord ==
    IF IsConsensus THEN result.allResponses ELSE result.responses

\* the configured roster cut down to the names the caller's filter holds
RosterWithin(filter) ==
    LET named(n) == \E i \in 1..Len(filter) : filter[i] = n
    IN  SelectSeq(<<"openai", "deepseek", "gemini">>, named)

\* the plugin's filter makes the loop walk the roster names it holds, and
\* nothing else
PluginSelectsKnown ==
    (pc = "handler" /\ request.filtered) =>
        /\ providers' = RosterWithin(request.enabledProviders)
        /\ pc' \in {"loop", "done"}
        /\ pc' = "done" => providers' = <<>>

\* no call leaves for an identifier that is not configured, and it gives no
\* verdict
UnknownMakesNoCall ==
    /\ \A i \in UnknownSet : ~attempts[i].called /\ i \notin WithVerdict
    /\ variant = "plugin" => UnknownSet = {}
    /\ IsConsensus =>
          /\ \A k \in 1..Len(result.providers) :
                result.providers[k] \in Configured
          /\ result.confidence.den
                = Cardinality({ i \in AcceptedSet : i \notin UnknownSet })
          /\ result.votes.optionA
                = Cardinality({ i \in AcceptedSet \ UnknownSet : FavoursA(i) })
          /\ result.votes.optionB
                = Cardinality({ i \in AcceptedSet \ UnknownSet : FavoursB(i) })

\* C13 as stated: an identifier that is not configured is skipped without a
\* trace: no call, no error, and every part of the output, the diagnostic
\* record included, is what the request without that identifier gives.
C13_UnknownSilentlySkipped ==
    /\ [](/\ UnknownMakesNoCall
          /\ (Evaluated /\ variant = "http") =>
                \A i \in 1..Len(DiagnosticRecord) :
                    DiagnosticRecord[i].provider \in Configured)
    /\ [][PluginSelectsKnown]_vars

\* C13, amended: no call is made for an identifier that is not configured
\* and it never fails the request; flags, votes, confidence, providers and
\* reasoning are those of the configured entries alone. The plugin leaves
\* the identifier out altogether; the HTTP endpoint keeps one entry for it
\* in its diagnostic record, with the error "Unsupported provider" and a
\* placeholder verdict.
C13_UnknownLeavesOnlyATrace ==
    /\ [](/\ UnknownMakesNoCall
          /\ variant = "http" =>
                \A i \in UnknownSet :
                    /\ responses[i].provider = attempts[i].provider
                    /\ responses[i].error = "Unsupported provider"
                    /\ responses[i].confidence = 0
          /\ (Evaluated /\ variant = "http") =>
                /\ Len(DiagnosticRecord) = Len(attempts)
                /\ \A i \in UnknownSet :
                      DiagnosticRecord[i].error = "Unsupported provider"
                /\ result.kind = "error" => AcceptedSet = {})
    /\ [][PluginSelectsKnown]_vars

\* an HTTP consensus reached around an identifier that is not configured
C13_Witness ==
    /\ variant = "http"
    /\ IsConsensus
    /\ UnknownSet = {2}
    /\ AcceptedSet = {1, 3}
    /\ Len(result.allResponses) = 3

----------------------------------------------------------------------------
(* C14 *)

\* the evaluation ended with no accepted verdict
NoConsensusPossible ==
    /\ Evaluated
    /\ result.kind = "error"
    /\ result.error \in NoConsensusMessages

\* the list of per-provider failures in what the caller was given: the
\* responses of the HTTP answer, a list field of the plugin's callback
DeliveredFailures ==
    IF variant = "http" THEN result.responses
    ELSE IF "responses" \in DOMAIN callback THEN callback.responses
    ELSE <<>>

\* C14: a NoConsensusPossible failure reaches the caller with one entry per
\* attempted provider, holding that provider's error or its rejected
\* verdict, over HTTP and in the plugin action.
C14_FailureCarriesAttempts ==
    NoConsensusPossible =>
        /\ Len(DeliveredFailures) = Len(attempts)
        /\ \A i \in Attempted :
              /\ DeliveredFailures[i].provider = attempts[i].provider
              /\ IF i \in WithVerdict
                 THEN DeliveredFailures[i].confidence
                         = attempts[i].verdict.confidence
                 ELSE DeliveredFailures[i].error # ""

\* the part of C14 that the HTTP endpoint meets
C14_HttpFailureCarriesAttempts ==
    variant = "http" => C14_FailureCarriesAttempts

----------------------------------------------------------------------------
(* C15 *)

\* the identifiers of the entries the loop has walked
WalkedNames == { attempts[i].provider : i \in Attempted }

CallsFor(p) ==
    { i \in Attempted : attempts[i].provider = p /\ attempts[i].called }

\* C15 as stated: each selected provider identifier is called exactly once,
\* and no identifier contributes more than one verdict to the votes, the
\* providers list or the mean, repeated identifiers in the caller's list
\* included.
C15_OneCallPerIdentifier ==
    /\ Len(attempts) = idx
    /\ Finished => \A p \in WalkedNames : Cardinality(CallsFor(p)) = 1
    /\ \A i \in AcceptedSet : \A j \in AcceptedSet :
          attempts[i].provider = attempts[j].provider => i = j

\* C15, amended: the loop walks the list once, entry by entry: one attempt
\* per entry, never a second after a failure or a below-floor answer, and at
\* most one call per attempt (none for an unconfigured identifier over HTTP
\* or for a provider without a key in the plugin). Each entry contributes at
\* most one verdict. In the plugin the list is a sub-sequence of the roster,
\* so no identifier occurs twice; over HTTP an identifier repeated in the
\* caller's array is called once per occurrence and every occurrence can
\* contribute a verdict.
C15_OneAttemptPerEntry ==
    /\ Len(attempts) = idx
    /\ idx <= Len(providers)
    /\ Evaluated => Len(attempts) = Len(providers)
    /\ \A i \in Attempted :
          /\ attempts[i].provider = NameAt(i)
          /\ attempts[i].called <=>
                IF variant = "plugin" THEN attempts[i].credential # ""
                ELSE attempts[i].provider \in Configured
    /\ variant = "plugin" =>
          \A i \in 1..Len(providers) : \A j \in 1..Len(providers) :
              providers[i] = providers[j] => i = j
    /\ IsConsensus =>
          /\ Len(result.providers) = Cardinality(AcceptedSet)
          /\ result.confidence.den = Cardinality(AcceptedSet)
          /\ result.votes.optionA + result.votes.optionB
                <= Cardinality(AcceptedSet)

\* over HTTP one identifier named twice was called twice and is twice in the
\* providers list
C15_Witness ==
    /\ variant = "http"
    /\ IsConsensus
    /\ Len(providers) = 3
    /\ NameAt(1) = NameAt(3)
    /\ attempts[1].called /\ attempts[3].called
    /\ 2 \in BelowFloor
    /\ result.providers = <<NameAt(1), NameAt(3)>>

----------------------------------------------------------------------------
(* C16 *)

\* C16: an evaluation with a call in flight always reaches its terminal
\* state, a ConsensusResult or NoConsensusPossible, even when the provider
\* never answers: the call is given up after its own timeout, counted as
\* unavailable, and the remaining providers are still called.
C16_HangStillTerminates == CallInFlight ~> Finished

----------------------------------------------------------------------------
(* C17 *)

\* opening braces minus closing braces among text[i..j]
Depth(text, i, j) ==
    Cardinality({ k \in i..j : text[k].t = "{" })
        - Cardinality({ k \in i..j : text[k].t = "}" })

\* the first balanced-brace substring of the text: from its first "{" to
\* the "}" that closes it; <<>> when there is none
FirstBalanced(text) ==
    LET opens == { i \in 1..Len(text) : text[i].t = "{" }
    IN  IF opens = {} THEN <<>>
        ELSE LET first == CHOOSE i \in opens : \A j \in opens : i <= j
                 closes == { j \in first..Len(text) :
                                Depth(text, first, j) = 0 }
             IN  IF closes = {} THEN <<>>
                 ELSE SubSeq(text, first,
                        CHOOSE j \in closes : \A k \in closes : j <= k)

\* a substring that is one JSON object with the four fields of a verdict
WellFormedVerdict(m) ==
    /\ Len(m) = 3
    /\ m[2].t = "members"
    /\ m[2].o.wrong = {}

\* attempts whose provider text went through the parser
ParsedSet ==
    { i \in Attempted :
        /\ attempts[i].called
        /\ attempts[i].outcome.net = "ok"
        /\ variant = "plugin" \/ attempts[i].outcome.ok }

\* C17: the parser takes the first balanced-brace object of the text: when
\* that object is a well-formed verdict, the attempt yields that verdict,
\* whatever follows it in the text, a later closing brace included.
C17_FirstBalancedObjectParsed ==
    \A i \in ParsedSet :
        LET m == FirstBalanced(attempts[i].outcome.text)
        IN  WellFormedVerdict(m) =>
               /\ attempts[i].verdict.ok
               /\ attempts[i].verdict.optionATrue = m[2].o.optionATrue
               /\ attempts[i].verdict.optionBTrue = m[2].o.optionBTrue
               /\ attempts[i].verdict.reasoning = m[2].o.reasoning

\* the part of C17 that holds: texts whose only closing brace is the
\* object's own
C17_HoldsWithoutLaterBrace ==
    \A i \in ParsedSet :
        LET text == attempts[i].outcome.text
        IN  (/\ WellFormedVerdict(FirstBalanced(text))
             /\ Cardinality({ k \in 1..Len(text) : text[k].t = "}" }) = 1) =>
               attempts[i].verdict.ok

----------------------------------------------------------------------------
(* C18 *)

\* C18: over HTTP both flags are true only when the number n of accepted
\* verdicts is even, each side has exactly n/2 votes and no accepted verdict
\* is ambiguous; the plugin never sets both flags; in both variants
\* votes.optionA + votes.optionB is at most the length of the providers
\* list.
C18_BothFlagsOnlyOnEvenSplit ==
    IsConsensus =>
        /\ result.votes.optionA + result.votes.optionB
              <= Len(result.providers)
        /\ variant = "plugin" =>
              ~(result.optionATrue /\ result.optionBTrue)
        /\ (variant = "http" /\ result.optionATrue /\ result.optionBTrue) =>
              /\ Cardinality(AcceptedSet) % 2 = 0
              /\ 2 * result.votes.optionA = Cardinality(AcceptedSet)
              /\ 2 * result.votes.optionB = Cardinality(AcceptedSet)
              /\ \A i \in AcceptedSet : ~Ambiguous(i)

\* an HTTP result with both flags true on a split of one vote each, beside
\* a provider that failed
C18_Witness ==
    /\ variant = "http"
    /\ IsConsensus
    /\ result.optionATrue /\ result.optionBTrue
    /\ result.votes = [optionA |-> 1, optionB |-> 1]
    /\ Len(attempts) = 3
    /\ Len(result.providers) = 2

----------------------------------------------------------------------------
(* C19 *)

\* the header is `Bearer <token>` and the token is the key
BearerTokenIs(header, key) ==
    /\ header.present
    /\ header.value # <<>>
    /\ header.value[1] = "Bearer "
    /\ Tail(header.value) = key

\* the header is the key itself, or the key with one "Bearer " put in front
\* of it or between two of its pieces
KeyBearing(header, key) ==
    /\ header.present
    /\ \/ header.value = key
       \/ \E n \in 0..Len(key) :
             header.value = SubSeq(key, 1, n) \o <<"Bearer ">>
                               \o SubSeq(key, n + 1, Len(key))

\* the request was answered 401 and nothing was called for it
Answered401 ==
    /\ pc = "done"
    /\ result.kind = "error"
    /\ result.status = 401
    /\ attempts = <<>>

\* an HTTP handler starts only on a request the middleware has let through
HandlerBehindGateway ==
    (variant = "none" /\ variant' \in {"http", "evaluate"}) =>
        pc = "route" /\ request.kind = "http"

====
